---- MODULE Spec2Model ----
(***************************************************************************)
(* The concurrent crawl engine of crawler.py: the controller thread        *)
(* (initialize, run_crawler, create_thread, show_results, close) and the   *)
(* worker threads (child_thread), with the two locks and the condition     *)
(* variable they synchronise on.                                           *)
(***************************************************************************)
EXTENDS Integers, Sequences, FiniteSets, TLC

\* ------------------------------------------------------------------ bounds
MaxSeeds == 1        \* seed lines of a general seed file
MaxLinksCfg == 2     \* largest max_links entered
MaxPagesCfg == 3     \* largest pages_limit entered
MaxThreadsCfg == 2   \* largest max_threads entered
MaxHrefs == 2        \* <a href> tags on one fetched page
MaxBare == 5         \* seed lines, max_threads and pages_limit of a file of scheme-less URLs
MaxRows == 2         \* rows of a graph file
MaxSamples == 3      \* n of sample_pagerank
Unit == 10000        \* the parts of 1 a float is counted in

\* ------------------------------------------------------- program constants
_DEL_STOP_AT == 5

NOBODY == 0          \* a lock nobody holds
MAIN == -1           \* the controller thread as the holder of a lock

\* ------------------------------------------------------------------- URLs
DefaultURL == "https://www.google.com"
BareURL == "b.org"   \* a seed line without scheme: urlparse gives no netloc
URLs == {DefaultURL, "http://b.org", BareURL}
SeedURLs == {DefaultURL, BareURL}   \* the lines a seed file is made of

\* the anchors a page can carry; "mailto:x" has no http(s) scheme
Hrefs == {"https://www.google.com/", "https://www.google.com", "http://b.org/", "mailto:x"}

get_domain(url) ==
    CASE url = "https://www.google.com" -> "www.google.com"
      [] url = "http://b.org" -> "b.org"
      [] OTHER -> ""

Domains == {"www.google.com", "b.org"}

\* get_links: scheme in http/https and a netloc
ValidHref(href) == href # "mailto:x"

\* get_links: scheme://netloc/path with the trailing slash stripped
CleanURL(href) ==
    CASE href = "https://www.google.com/" -> "https://www.google.com"
      [] href = "http://b.org/" -> "http://b.org"
      [] OTHER -> href

SeqsUpTo(S, n) == UNION {[1..k -> S] : k \in 0..n}

Pages == SeqsUpTo(Hrefs, MaxHrefs)

NoFile == <<"FileNotFoundError">>
NoLink == ""

VARIABLES
    seed_file,            \* initialLinks.txt: its non-blank lines after the count line, or NoFile
    max_links, pages_limit, max_threads,
    link_queue, discovered_sites, page_rank,
    working_threads, total_visited_pages, pages_limit_reached,
    thread_timings,
    data_lock,            \* holder of self.data_lock
    condition,            \* holder of the lock of self.condition
    main,                 \* the controller thread: pc and the locals of run_crawler / show_results
    threads,              \* threads[th_no]: the worker thread create_thread started as th_no
    th_timings_csv,       \* OUTPUT/th_timings.csv
    pagerank_csv,         \* OUTPUT/pagerank.csv: the rows written
    worker_puts           \* worker_puts[url]: link_queue.put(url) calls made by workers

config == <<seed_file, max_links, pages_limit, max_threads>>
shared == <<link_queue, discovered_sites, page_rank, working_threads,
            total_visited_pages, pages_limit_reached, thread_timings>>
files == <<th_timings_csv, pagerank_csv>>
vars == <<config, shared, data_lock, condition, main, threads, files, worker_puts>>

\* ------------------------------------------------------------ pure helpers
RECURSIVE get_links_from(_, _, _)
get_links_from(page, i, links) ==
    IF i > Len(page) \/ Cardinality(links) >= max_links
    THEN links
    ELSE get_links_from(page, i + 1,
            IF ValidHref(page[i]) THEN links \cup {CleanURL(page[i])} ELSE links)

get_links(page) == get_links_from(page, 1, {})

\* the edge recorded at the link's domain instead of the crawled page's
AddEdgeReversed(pr, a, b) == [pr EXCEPT ![b] = @ \cup {a}]

\* page_rank[a] = {b}: the set is replaced
AddEdgeOverwrite(pr, a, b) == [pr EXCEPT ![a] = {b}]

\* page_rank[a].add(b) on the defaultdict(set): a key exists once its set is non-empty
AddEdge(pr, a, b) == [pr EXCEPT ![a] = @ \cup {b}]

Keys(pr) == {d \in Domains : pr[d] # {}}

\* a with-block that does not exclude the other threads
LockIgnored(lock) == TRUE

LockFree(lock) == lock = NOBODY

\* child_thread, line 129
IsNew(link) == link \notin discovered_sites

\* the page limit tested with > for >=
LimitNowStrict(visited) == visited > pages_limit

\* create_thread, line 161
LimitNow(visited) == visited >= pages_limit

\* the loop not looking at pages_limit_reached
ReadLimitNever == FALSE

\* run_crawler, line 174
ReadLimit == pages_limit_reached

\* the threshold tested with <= for <
BelowStopInclusive(working) == working <= _DEL_STOP_AT

\* run_crawler, line 179
BelowStop(working) == working < _DEL_STOP_AT

\* the pool size tested with <= for <
CanSpawnInclusive(working, has_links) == working <= max_threads /\ has_links

\* the spawn test without the look at the queue
CanSpawnAnyQueue(working, has_links) == working < max_threads

\* run_crawler, line 187
CanSpawn(working, has_links) == working < max_threads /\ has_links

\* the exit on an empty queue taken without looking at the workers in flight
ExhaustedQueueOnly(working, has_links) == ~has_links

\* run_crawler, line 189
Exhausted(working, has_links) == working = 0 /\ ~has_links

Sample == <<0, 0, 0>>   \* [d_time, p_time, u_time], the durations abstracted

MainAt(pc) == [pc |-> pc, limit_hit |-> FALSE, threads_working |-> 0,
               queue_has_links |-> FALSE, keys |-> {}, rows |-> {}]

NewThread(url) == [pc |-> "download", url |-> url, html |-> FALSE,
                   linked_sites |-> {}, todo |-> {}, link |-> NoLink]

\* ------------------------------------------------------------------- Init
GeneralConfig ==
    /\ seed_file \in SeqsUpTo(SeedURLs, MaxSeeds) \cup {NoFile}
    /\ max_links \in 0..MaxLinksCfg
    /\ pages_limit \in 0..MaxPagesCfg
    /\ max_threads \in 0..MaxThreadsCfg

\* a seed file of n >= _DEL_STOP_AT lines that all lack the scheme, crawled
\* with pages_limit = max_threads = n
BareConfig ==
    \E n \in _DEL_STOP_AT..MaxBare :
        /\ seed_file = [i \in 1..n |-> BareURL]
        /\ max_links = 1
        /\ pages_limit = n
        /\ max_threads = n

Init ==
    /\ GeneralConfig \/ BareConfig
    /\ link_queue = <<>>
    /\ discovered_sites = {}
    /\ page_rank = [d \in Domains |-> {}]
    /\ working_threads = 0
    /\ total_visited_pages = 0
    /\ pages_limit_reached = FALSE
    /\ thread_timings = <<>>
    /\ data_lock = NOBODY
    /\ condition = NOBODY
    /\ main = MainAt("initialize")
    /\ threads = <<>>
    /\ th_timings_csv = <<>>
    /\ pagerank_csv = {}
    /\ worker_puts = [u \in URLs |-> 0]

\* ------------------------------------------------------------- controller
\* the lines initialize puts on the queue
SeedLines == IF seed_file = NoFile THEN <<DefaultURL>> ELSE seed_file

initialize ==
    /\ main.pc = "initialize"
    /\ link_queue' = SeedLines
    /\ main' = MainAt("acquire")
    /\ UNCHANGED <<config, discovered_sites, page_rank, working_threads,
                   total_visited_pages, pages_limit_reached, thread_timings,
                   data_lock, condition, threads, files, worker_puts>>

\* run_crawler: with self.condition
run_acquire ==
    /\ main.pc = "acquire"
    /\ LockFree(condition)
    /\ condition' = MAIN
    /\ main' = MainAt("snapshot")
    /\ UNCHANGED <<config, shared, data_lock, threads, files, worker_puts>>

\* run_crawler: with self.data_lock: the three reads
run_snapshot ==
    /\ main.pc = "snapshot"
    /\ LockFree(data_lock)
    /\ main' = [MainAt("decide") EXCEPT !.limit_hit = ReadLimit,
                                        !.threads_working = working_threads,
                                        !.queue_has_links = link_queue # <<>>]
    /\ UNCHANGED <<config, shared, data_lock, condition, threads, files, worker_puts>>

\* leaving the with-block by break releases the condition's lock
run_break ==
    /\ condition' = NOBODY
    /\ main' = MainAt("stopped")
    /\ UNCHANGED <<config, shared, data_lock, threads, files, worker_puts>>

\* self.condition.wait(): registers as waiter and releases the lock
run_wait ==
    /\ condition' = NOBODY
    /\ main' = MainAt("waiting")
    /\ UNCHANGED <<config, shared, data_lock, threads, files, worker_puts>>

run_exit_limit ==
    /\ main.pc = "decide"
    /\ main.limit_hit
    /\ BelowStop(main.threads_working)
    /\ run_break

run_wait_limit ==
    /\ main.pc = "decide"
    /\ main.limit_hit
    /\ ~BelowStop(main.threads_working)
    /\ run_wait

run_spawn ==
    /\ main.pc = "decide"
    /\ ~main.limit_hit
    /\ CanSpawn(main.threads_working, main.queue_has_links)
    /\ main' = MainAt("create_thread")
    /\ UNCHANGED <<config, shared, data_lock, condition, threads, files, worker_puts>>

run_exit_exhausted ==
    /\ main.pc = "decide"
    /\ ~main.limit_hit
    /\ ~CanSpawn(main.threads_working, main.queue_has_links)
    /\ Exhausted(main.threads_working, main.queue_has_links)
    /\ run_break

run_wait_busy ==
    /\ main.pc = "decide"
    /\ ~main.limit_hit
    /\ ~CanSpawn(main.threads_working, main.queue_has_links)
    /\ ~Exhausted(main.threads_working, main.queue_has_links)
    /\ run_wait

\* create_thread, then the end of run_crawler's with-block
create_thread ==
    /\ main.pc = "create_thread"
    /\ LockFree(data_lock)
    /\ IF link_queue = <<>>
       THEN UNCHANGED <<link_queue, total_visited_pages, working_threads,
                        pages_limit_reached, threads>>
       ELSE /\ link_queue' = Tail(link_queue)
            /\ total_visited_pages' = total_visited_pages + 1
            /\ working_threads' = working_threads + 1
            /\ pages_limit_reached' =
                   IF LimitNow(total_visited_pages + 1) THEN TRUE ELSE pages_limit_reached
            /\ threads' = Append(threads, NewThread(Head(link_queue)))
    /\ condition' = NOBODY
    /\ main' = MainAt("acquire")
    /\ UNCHANGED <<config, discovered_sites, page_rank, thread_timings,
                   data_lock, files, worker_puts>>

\* wait() returns: the notified controller re-acquires the condition's lock,
\* and the with-block ends
run_awaken ==
    /\ main.pc = "notified"
    /\ LockFree(condition)
    /\ main' = MainAt("acquire")
    /\ UNCHANGED <<config, shared, data_lock, condition, threads, files, worker_puts>>

\* show_results: th_timings.csv
write_timings ==
    /\ main.pc = "stopped"
    /\ th_timings_csv' = thread_timings
    /\ main' = MainAt("pagerank")
    /\ UNCHANGED <<config, shared, data_lock, condition, threads, pagerank_csv, worker_puts>>

\* show_results: pagerank.csv is opened and the iteration over page_rank.items() starts
open_pagerank ==
    /\ main.pc = "pagerank"
    /\ pagerank_csv' = {}
    /\ main' = [MainAt("rows") EXCEPT !.keys = Keys(page_rank), !.rows = Keys(page_rank)]
    /\ UNCHANGED <<config, shared, data_lock, condition, threads, th_timings_csv, worker_puts>>

\* one row of pagerank.csv
write_row ==
    /\ main.pc = "rows"
    /\ Keys(page_rank) = main.keys
    /\ \E domain \in main.rows :
          /\ pagerank_csv' = pagerank_csv \cup {<<domain, page_rank[domain]>>}
          /\ main' = [main EXCEPT !.rows = @ \ {domain}]
    /\ UNCHANGED <<config, shared, data_lock, condition, threads, th_timings_csv, worker_puts>>

\* the iteration ends; the summary is printed; close()
close ==
    /\ main.pc = "rows"
    /\ Keys(page_rank) = main.keys
    /\ main.rows = {}
    /\ main' = MainAt("closed")
    /\ UNCHANGED <<config, shared, data_lock, condition, threads, files, worker_puts>>

\* a worker added a key while the rows were written: the dict iterator raises
\* RuntimeError, which nothing catches
iteration_error ==
    /\ main.pc = "rows"
    /\ Keys(page_rank) # main.keys
    /\ main' = MainAt("RuntimeError")
    /\ UNCHANGED <<config, shared, data_lock, condition, threads, files, worker_puts>>

Controller ==
    \/ initialize \/ run_acquire \/ run_snapshot
    \/ run_exit_limit \/ run_wait_limit \/ run_spawn \/ run_exit_exhausted \/ run_wait_busy
    \/ create_thread \/ run_awaken
    \/ write_timings \/ open_pagerank \/ write_row \/ close \/ iteration_error

\* ---------------------------------------------------------------- workers
\* th_no is total_visited_pages at the start of the thread
MaxThreadNo == IF MaxPagesCfg > MaxBare THEN MaxPagesCfg ELSE MaxBare
ThreadNos == 1..MaxThreadNo
\* the workers are daemon threads: they run while the controller thread lives,
\* and the uncaught RuntimeError of show_results ends the process
Started(th_no) == th_no <= Len(threads) /\ main.pc # "RuntimeError"

\* child_thread steps 1 and 2: downloader and get_links
download(th_no) ==
    /\ Started(th_no)
    /\ threads[th_no].pc = "download"
    /\ LET curr_domain == get_domain(threads[th_no].url)
       IN \E html \in BOOLEAN, page \in Pages :
          \* requests raises a RequestException for a URL without scheme or host
          /\ curr_domain = "" => ~html
          /\ ~html => page = <<>>
          /\ LET linked_sites == IF html THEN get_links(page) ELSE {}
             IN threads' = [threads EXCEPT ![th_no] =
                    [@ EXCEPT !.pc = IF curr_domain # "" THEN "lock" ELSE "timing",
                              !.html = html,
                              !.linked_sites = linked_sites,
                              !.todo = IF curr_domain # "" THEN linked_sites ELSE {}]]
    /\ UNCHANGED <<config, shared, data_lock, condition, main, files, worker_puts>>

\* with self.data_lock
lock(th_no) ==
    /\ Started(th_no)
    /\ threads[th_no].pc = "lock"
    /\ LockFree(data_lock)
    /\ data_lock' = th_no
    /\ threads' = [threads EXCEPT ![th_no].pc = "loop"]
    /\ UNCHANGED <<config, shared, condition, main, files, worker_puts>>

\* for link in linked_sites: if link not in self.discovered_sites
next_link(th_no) ==
    /\ Started(th_no)
    /\ threads[th_no].pc = "loop"
    /\ \E link \in threads[th_no].todo :
          threads' = [threads EXCEPT ![th_no] =
              [@ EXCEPT !.todo = @ \ {link},
                        !.pc = IF IsNew(link) THEN "insert" ELSE "loop",
                        !.link = IF IsNew(link) THEN link ELSE NoLink]]
    /\ UNCHANGED <<config, shared, data_lock, condition, main, files, worker_puts>>

\* the body of the if: add, put, and the edge
insert(th_no) ==
    /\ Started(th_no)
    /\ threads[th_no].pc = "insert"
    /\ LET link == threads[th_no].link
           curr_domain == get_domain(threads[th_no].url)
           link_domain == get_domain(link)
       IN /\ discovered_sites' = discovered_sites \cup {link}
          /\ link_queue' = Append(link_queue, link)
          /\ page_rank' = IF link_domain # ""
                          THEN AddEdge(page_rank, curr_domain, link_domain)
                          ELSE page_rank
          /\ worker_puts' = [worker_puts EXCEPT ![link] = @ + 1]
    /\ threads' = [threads EXCEPT ![th_no] = [@ EXCEPT !.pc = "loop", !.link = NoLink]]
    /\ UNCHANGED <<config, working_threads, total_visited_pages, pages_limit_reached,
                   thread_timings, data_lock, condition, main, files>>

\* the loop is over: the with-block releases data_lock
unlock(th_no) ==
    /\ Started(th_no)
    /\ threads[th_no].pc = "loop"
    /\ threads[th_no].todo = {}
    /\ data_lock' = NOBODY
    /\ threads' = [threads EXCEPT ![th_no].pc = "timing"]
    /\ UNCHANGED <<config, shared, condition, main, files, worker_puts>>

\* with self.timing_lock: self.thread_timings.append(...)
timing(th_no) ==
    /\ Started(th_no)
    /\ threads[th_no].pc = "timing"
    /\ thread_timings' = Append(thread_timings, Sample)
    /\ threads' = [threads EXCEPT ![th_no].pc = "condition"]
    /\ UNCHANGED <<config, link_queue, discovered_sites, page_rank, working_threads,
                   total_visited_pages, pages_limit_reached,
                   data_lock, condition, main, files, worker_puts>>

\* with self.condition
notify_acquire(th_no) ==
    /\ Started(th_no)
    /\ threads[th_no].pc = "condition"
    /\ LockFree(condition)
    /\ condition' = th_no
    /\ threads' = [threads EXCEPT ![th_no].pc = "finish"]
    /\ UNCHANGED <<config, shared, data_lock, main, files, worker_puts>>

\* a worker that ends without notify()
NotifyForgotten(m) == m

\* self.condition.notify(): wakes the controller if it waits
Notify(m) == IF m.pc = "waiting" THEN [m EXCEPT !.pc = "notified"] ELSE m

\* with self.data_lock: working_threads -= 1; then notify(), the release and
\* the return, which ends the thread and its locals
finish(th_no) ==
    /\ Started(th_no)
    /\ threads[th_no].pc = "finish"
    /\ LockFree(data_lock)
    /\ working_threads' = working_threads - 1
    /\ main' = Notify(main)
    /\ condition' = NOBODY
    /\ threads' = [threads EXCEPT ![th_no] = [NewThread(@.url) EXCEPT !.pc = "done"]]
    /\ UNCHANGED <<config, link_queue, discovered_sites, page_rank,
                   total_visited_pages, pages_limit_reached, thread_timings,
                   data_lock, files, worker_puts>>

child_thread(th_no) ==
    \/ download(th_no) \/ lock(th_no) \/ next_link(th_no) \/ insert(th_no)
    \/ unlock(th_no) \/ timing(th_no) \/ notify_acquire(th_no) \/ finish(th_no)

Next ==
    \/ initialize \/ run_acquire \/ run_snapshot
    \/ run_exit_limit \/ run_wait_limit \/ run_spawn \/ run_exit_exhausted \/ run_wait_busy
    \/ create_thread \/ run_awaken
    \/ write_timings \/ open_pagerank \/ write_row \/ close \/ iteration_error
    \/ \E th_no \in ThreadNos :
          \/ download(th_no) \/ lock(th_no) \/ next_link(th_no) \/ insert(th_no)
          \/ unlock(th_no) \/ timing(th_no) \/ notify_acquire(th_no) \/ finish(th_no)

Spec == Init /\ [][Next]_vars

\* Every thread that can run is scheduled: the controller and each worker take
\* their next step when it stays possible (requests.get returns within its
\* timeout, the locks are handed over).
Fairness == WF_vars(Controller) /\ \A th_no \in ThreadNos : WF_vars(child_thread(th_no))

FairSpec == Init /\ [][Next]_vars /\ Fairness

\* ------------------------------------------------------- main.py, Part 0
\* what the operator types at the three prompts
InputTexts == {"ten", "-1", "0", "2", "5"}

\* the texts int() accepts
Numerals == {"-1", "0", "2", "5"}

\* int(input(...)) raises ValueError on any other text
ValueError(text) == text \notin Numerals

\* int(input(...)) of a numeral
int(text) ==
    CASE text = "-1" -> -1
      [] text = "0" -> 0
      [] text = "2" -> 2
      [] text = "5" -> 5

NotEntered == "not entered"

\* the process starts: nothing is entered yet, initialLinks.txt is what it is
MainInit ==
    /\ seed_file \in SeqsUpTo(SeedURLs, MaxSeeds) \cup {NoFile}
                     \cup {[i \in 1.._DEL_STOP_AT |-> BareURL]}
    /\ max_links = NotEntered
    /\ pages_limit = NotEntered
    /\ max_threads = NotEntered
    /\ link_queue = <<>>
    /\ discovered_sites = {}
    /\ page_rank = [d \in Domains |-> {}]
    /\ working_threads = 0
    /\ total_visited_pages = 0
    /\ pages_limit_reached = FALSE
    /\ thread_timings = <<>>
    /\ data_lock = NOBODY
    /\ condition = NOBODY
    /\ main = MainAt("input")
    /\ threads = <<>>
    /\ th_timings_csv = <<>>
    /\ pagerank_csv = {}
    /\ worker_puts = [u \in URLs |-> 0]

\* main: the three int(input()) calls; a ValueError exits with status 1,
\* anything else goes on to Crawler(max_links, pages_limit, max_threads)
read_config ==
    /\ main.pc = "input"
    /\ \E links_text, pages_text, threads_text \in InputTexts :
          IF ValueError(links_text) \/ ValueError(pages_text) \/ ValueError(threads_text)
          THEN /\ main' = MainAt("sys.exit(1)")
               /\ UNCHANGED <<max_links, pages_limit, max_threads>>
          ELSE /\ max_links' = int(links_text)
               /\ pages_limit' = int(pages_text)
               /\ max_threads' = int(threads_text)
               /\ main' = MainAt("initialize")
    /\ UNCHANGED <<seed_file, shared, data_lock, condition, threads, files, worker_puts>>

MainNext == read_config \/ Next

MainSpec == MainInit /\ [][MainNext]_vars

\* ------------------------------------------------------ ranker.py, Part 2
\* the domain names a graph file holds
PageNames == {"A", "B", "C"}

\* a row of OUTPUT/pagerank.csv: blank, or a first cell and the set of the
\* other cells, where a cell may be empty
Rows == {<<>>} \cup (PageNames \X SUBSET (PageNames \cup {""}))

\* OUTPUT/pagerank.csv does not exist
NoGraphFile == {NoFile}

RECURSIVE FilesUpTo(_)
\* the files of at most n different rows
FilesUpTo(n) ==
    IF n = 0 THEN {{}}
    ELSE LET shorter == FilesUpTo(n - 1)
         IN  shorter \cup {file \cup {row} : file \in shorter, row \in Rows}

GraphFiles == FilesUpTo(MaxRows) \cup {NoGraphFile}

\* a float is held as the whole number of 1/Unit parts in it, cut off
DAMPING == 8500

None == [None |-> {}]

\* read_corpus without the loop that adds the linked pages as keys
read_corpus_open(file) ==
    IF file = NoGraphFile
    THEN None
    ELSE LET rows == {row \in file : row # <<>>}
             keys == {row[1] : row \in rows}
         IN  [page \in keys |->
                 UNION {row[2] \ {""} : row \in {r \in rows : r[1] = page}}]

read_corpus(file) ==
    IF file = NoGraphFile
    THEN None
    ELSE LET rows == {row \in file : row # <<>>}
             keys == {row[1] : row \in rows}
             pages == [page \in keys |->
                          UNION {row[2] \ {""} : row \in {r \in rows : r[1] = page}}]
             all_pages == keys \cup UNION {pages[page] : page \in keys}
         IN  [page \in all_pages |-> IF page \in keys THEN pages[page] ELSE {}]

\* `not corpus`
Not(corpus) == corpus = None \/ DOMAIN corpus = {}

\* the number of pages that link to page
in_degree(corpus) == [page \in DOMAIN corpus |->
                         Cardinality({linker \in DOMAIN corpus : page \in corpus[linker]})]

counter_ranker(corpus) == [page \in DOMAIN corpus |-> Cardinality(corpus[page])]

\* corpus.get(page, set())
linked_pages_of(corpus, page) == IF page \in DOMAIN corpus THEN corpus[page] ELSE {}

transition_model(corpus, page, damping_factor) ==
    LET linked_pages == linked_pages_of(corpus, page)
        num_links == Cardinality(linked_pages)
        num_total_pages == Cardinality(DOMAIN corpus)
    IN  IF num_links > 0
        THEN [p \in DOMAIN corpus |->
                 ((Unit - damping_factor) \div num_total_pages)
                 + (IF p \in linked_pages THEN damping_factor \div num_links ELSE 0)]
        ELSE [p \in DOMAIN corpus |-> Unit \div num_total_pages]

\* random.choices(pages, weights): the pages it can return
choices(model) == {p \in DOMAIN model : model[p] > 0}

RECURSIVE sum(_, _)
\* sum(f[p] for p in pages)
sum(f, pages) ==
    IF pages = {} THEN 0
    ELSE LET p == CHOOSE q \in pages : TRUE
         IN  f[p] + sum(f, pages \ {p})

abs(x) == IF x < 0 THEN -x ELSE x

\* max(xs)
max(xs) == CHOOSE x \in xs : \A y \in xs : y <= x

incoming_links(corpus) ==
    [p \in DOMAIN corpus |-> {linker \in DOMAIN corpus : p \in corpus[linker]}]

\* one pass of the while loop of iterate_pagerank: new_pagerank
new_pagerank(corpus, damping_factor, pagerank) ==
    LET num_pages == Cardinality(DOMAIN corpus)
        share == [linker \in DOMAIN corpus |->
                     IF corpus[linker] # {}
                     THEN pagerank[linker] \div Cardinality(corpus[linker])
                     ELSE 0]
    IN  [page \in DOMAIN corpus |->
            LET random_surf_prob == (Unit - damping_factor) \div num_pages
                link_prob == sum(share, {linker \in incoming_links(corpus)[page] :
                                            corpus[linker] # {}})
            IN  random_surf_prob + (damping_factor * link_prob) \div Unit]

max_change(corpus, pagerank, new) ==
    max({abs(pagerank[p] - new[p]) : p \in DOMAIN corpus})

\* the ranks returned as they stand
unnormalized(pagerank) == pagerank

\* {p: rank / total}
normalize(pagerank) ==
    LET total == sum(pagerank, DOMAIN pagerank)
    IN  [p \in DOMAIN pagerank |-> (pagerank[p] * Unit) \div total]

\* pagerank[current_page] += 2
count_twice(pagerank, current_page) == [pagerank EXCEPT ![current_page] = @ + 2]

\* pagerank[current_page] += 1
count(pagerank, current_page) == [pagerank EXCEPT ![current_page] = @ + 1]

\* the main thread in Part 2 and the locals of the ranker it calls
RankerAt(pc) ==
    [pc |-> pc, corpus |-> None, ranker_flag |-> "", damping_factor |-> 0, n |-> 0,
     i |-> 0, pagerank |-> <<>>, current_page |-> "", ranks |-> <<>>]

\* Part 2 starts: the graph file is what it is, the Crawler object is not read
RankerInit ==
    /\ pagerank_csv \in GraphFiles
    /\ main = RankerAt("read_corpus")
    /\ seed_file = NoFile
    /\ max_links = NotEntered
    /\ pages_limit = NotEntered
    /\ max_threads = NotEntered
    /\ link_queue = <<>>
    /\ discovered_sites = {}
    /\ page_rank = [d \in Domains |-> {}]
    /\ working_threads = 0
    /\ total_visited_pages = 0
    /\ pages_limit_reached = FALSE
    /\ thread_timings = <<>>
    /\ data_lock = NOBODY
    /\ condition = NOBODY
    /\ threads = <<>>
    /\ th_timings_csv = <<>>
    /\ worker_puts = [u \in URLs |-> 0]

crawler == <<config, shared, data_lock, condition, threads, files, worker_puts>>

\* corpus = read_corpus(); if not corpus: return
call_read_corpus ==
    /\ main.pc = "read_corpus"
    /\ LET corpus == read_corpus(pagerank_csv)
       IN  main' = [main EXCEPT !.corpus = corpus,
                                !.pc = IF Not(corpus) THEN "return" ELSE "ranker_flag"]
    /\ UNCHANGED crawler

\* ranker_flag == "-n": ranks = counter_ranker(corpus)
call_counter_ranker ==
    /\ main.pc = "ranker_flag"
    /\ main' = [main EXCEPT !.ranker_flag = "-n",
                            !.ranks = counter_ranker(main.corpus),
                            !.pc = "print_ranks"]
    /\ UNCHANGED crawler

\* the damping factors sample_pagerank is called with
Dampings == {0, DAMPING, Unit}

\* ranker_flag == "-sp": sample_pagerank is entered and draws its first page
call_sample_pagerank ==
    /\ main.pc = "ranker_flag"
    /\ \E damping_factor \in Dampings, n \in 1..MaxSamples, page \in DOMAIN main.corpus :
          main' = [main EXCEPT !.ranker_flag = "-sp",
                               !.damping_factor = damping_factor,
                               !.n = n,
                               !.i = 0,
                               !.pagerank = [p \in DOMAIN main.corpus |-> 0],
                               !.current_page = page,
                               !.pc = "sample"]
    /\ UNCHANGED crawler

\* one pass of `for _ in range(n)`
sample ==
    /\ main.pc = "sample"
    /\ main.i < main.n
    /\ LET model == transition_model(main.corpus, main.current_page, main.damping_factor)
       IN  \E page \in choices(model) :
              main' = [main EXCEPT !.pagerank = count(@, main.current_page),
                                   !.current_page = page,
                                   !.i = @ + 1]
    /\ UNCHANGED crawler

\* return {page: count / n}: a score is kept as the pair of count and n
return_sample_pagerank ==
    /\ main.pc = "sample"
    /\ main.i = main.n
    /\ main' = [main EXCEPT !.ranks = [page \in DOMAIN main.pagerank |->
                                          <<main.pagerank[page], main.n>>],
                            !.pc = "print_ranks"]
    /\ UNCHANGED crawler

\* ranker_flag == "-ip": iterate_pagerank is entered
call_iterate_pagerank ==
    /\ main.pc = "ranker_flag"
    /\ main' = [main EXCEPT !.ranker_flag = "-ip",
                            !.damping_factor = DAMPING,
                            !.pagerank = [p \in DOMAIN main.corpus |->
                                             Unit \div Cardinality(DOMAIN main.corpus)],
                            !.pc = "iterate"]
    /\ UNCHANGED crawler

\* one pass of `while True`
iterate ==
    /\ main.pc = "iterate"
    /\ LET new == new_pagerank(main.corpus, main.damping_factor, main.pagerank)
       IN  main' = [main EXCEPT !.pagerank = new,
                                !.pc = IF max_change(main.corpus, main.pagerank, new)
                                           < Unit \div 1000
                                       THEN "normalize"
                                       ELSE "iterate"]
    /\ UNCHANGED crawler

\* total = sum(pagerank.values()); return {p: rank / total}
return_iterate_pagerank ==
    /\ main.pc = "normalize"
    /\ main' = [main EXCEPT !.ranks = normalize(main.pagerank), !.pc = "print_ranks"]
    /\ UNCHANGED crawler

RankerNext ==
    \/ call_read_corpus
    \/ call_counter_ranker
    \/ call_sample_pagerank
    \/ sample
    \/ return_sample_pagerank
    \/ call_iterate_pagerank
    \/ iterate
    \/ return_iterate_pagerank

RankerSpec == RankerInit /\ [][RankerNext]_vars

\* ================================================================= claims
Stopped == main.pc \in {"stopped", "pagerank", "rows", "closed", "RuntimeError"}

\* the worker has left the with-block of its update step and still runs
Updated(th_no) ==
    /\ th_no <= Len(threads)
    /\ threads[th_no].pc \in {"timing", "condition", "finish"}

\* C1: in every reachable state the in-flight counter working_threads lies
\* between 0 and max_threads.
C1_WorkingWithinPool == 0 <= working_threads /\ working_threads <= max_threads

C1_Witness == max_threads >= 2 /\ working_threads = max_threads /\ main.pc = "waiting"

\* C2: with max_threads >= 1 and pages_limit >= 1, under fair scheduling
\* run_crawler eventually leaves its loop; it does not wait forever.
C2_Terminates == (max_threads >= 1 /\ pages_limit >= 1) ~> Stopped

\* the controller has slept in wait(), been woken by a worker, and has stopped
C2_Witness ==
    /\ max_threads >= 1 /\ pages_limit >= 2
    /\ main.pc = "stopped"
    /\ total_visited_pages >= 2
    /\ working_threads = 0

\* C3: when run_crawler has left its loop, exactly one of the two stop
\* conditions holds on the shared state: no limit, no worker and an empty
\* queue, or the limit reached and fewer than _DEL_STOP_AT workers.
C3_StopCondition ==
    main.pc = "stopped" =>
        LET exhausted == ~pages_limit_reached /\ working_threads = 0 /\ link_queue = <<>>
            drained == pages_limit_reached /\ working_threads < _DEL_STOP_AT
        IN (exhausted \/ drained) /\ ~(exhausted /\ drained)

C3_Witness ==
    /\ main.pc = "stopped"
    /\ pages_limit_reached
    /\ working_threads = _DEL_STOP_AT - 1

seed_puts(url) ==
    IF main.pc = "initialize" THEN 0
    ELSE Cardinality({i \in 1..Len(SeedLines) : SeedLines[i] = url})

\* C5: every URL on the queue, the seeds included, is in discovered_sites from
\* the moment it is put there, and no URL is put on the queue a second time.
C5_DiscoveredIsEverEnqueued ==
    /\ \A i \in 1..Len(link_queue) : link_queue[i] \in discovered_sites
    /\ \A url \in URLs : seed_puts(url) + worker_puts[url] <= 1

\* C6: with pages_limit >= 1, total_visited_pages never exceeds pages_limit,
\* and pages_limit_reached is true exactly when total_visited_pages >= pages_limit.
C6_LimitGatesStarts ==
    pages_limit >= 1 =>
        /\ total_visited_pages <= pages_limit
        /\ pages_limit_reached <=> (total_visited_pages >= pages_limit)

C6_Witness ==
    /\ pages_limit >= 2
    /\ pages_limit_reached
    /\ total_visited_pages = pages_limit
    /\ link_queue # <<>>

IsPrefix(s, t) == Len(s) <= Len(t) /\ SubSeq(t, 1, Len(s)) = s

\* C7: once pages_limit_reached is true, no step dequeues a URL, starts a
\* worker or changes total_visited_pages.
C7_NoSpawnWhileDraining ==
    [][pages_limit_reached =>
          /\ IsPrefix(link_queue, link_queue')
          /\ total_visited_pages' = total_visited_pages
          /\ Len(threads') = Len(threads)]_vars

\* the limit is reached, URLs are left on the queue, and the loop has gone round
C7_Witness ==
    /\ pages_limit >= 2
    /\ pages_limit_reached
    /\ link_queue # <<>>
    /\ main.pc \in {"waiting", "stopped"}

\* C8 as stated: after the update step of a worker crawling a URL of domain A,
\* A->B is in page_rank for every extracted link of domain B, discovered
\* earlier or not.
C8_EdgeForEveryLink ==
    \A th_no \in ThreadNos :
        (Updated(th_no) /\ get_domain(threads[th_no].url) # "") =>
            \A link \in threads[th_no].linked_sites :
                get_domain(link) # "" =>
                    get_domain(link) \in page_rank[get_domain(threads[th_no].url)]

\* C8 amended: a worker crawling a URL of domain A adds A->B for each extracted
\* link of domain B that is not yet in discovered_sites when the worker tests
\* it, and page_rank changes in no other step.
C8_EdgeForNewLink ==
    [][/\ \A th_no \in ThreadNos :
             (th_no <= Len(threads) /\ threads[th_no].pc = "insert" /\ threads'[th_no].pc = "loop") =>
                 /\ threads[th_no].link \notin discovered_sites
                 /\ get_domain(threads[th_no].link) \in
                        page_rank'[get_domain(threads[th_no].url)]
       /\ page_rank' # page_rank => discovered_sites' # discovered_sites]_vars

\* a worker is through its update step with one extracted link that gave an
\* edge and one, discovered earlier, that gave none
C8_Witness ==
    \E th_no \in ThreadNos :
        /\ Updated(th_no)
        /\ \E l1, l2 \in threads[th_no].linked_sites :
              /\ get_domain(l1) \in page_rank[get_domain(threads[th_no].url)]
              /\ get_domain(l2) \notin page_rank[get_domain(threads[th_no].url)]

OneSeedOnePage == Len(SeedLines) = 1 /\ pages_limit = 1 /\ max_threads >= 1

TimingsWritten == main.pc \in {"pagerank", "rows", "closed", "RuntimeError"}

\* C9 as stated: with one seed URL and pages_limit = 1, the timing samples
\* show_results writes hold exactly one record.
C9_OneTimingRecord == (OneSeedOnePage /\ TimingsWritten) => Len(th_timings_csv) = 1

\* C9 amended: with one seed URL and pages_limit = 1, run_crawler leaves its
\* loop, and show_results writes the samples appended so far, at most one: the
\* record is missing when the worker has not yet appended its sample.
C9_AtMostOneTimingRecord ==
    /\ OneSeedOnePage ~> Stopped
    /\ [][(OneSeedOnePage /\ main.pc = "stopped" /\ main'.pc = "pagerank") =>
              /\ th_timings_csv' = thread_timings
              /\ Len(th_timings_csv') <= 1]_vars

\* show_results has run, the file is empty, and the worker appended afterwards
C9_Witness ==
    /\ OneSeedOnePage
    /\ main.pc = "closed"
    /\ th_timings_csv = <<>>
    /\ Len(thread_timings) = 1

stores == <<page_rank, discovered_sites, link_queue>>

\* C10 as stated: once run_crawler has returned, no step changes page_rank,
\* discovered_sites or link_queue.
C10_FinalAfterStop == [][Stopped => UNCHANGED stores]_vars

\* C10 amended: once run_crawler has returned with pages_limit_reached false,
\* no worker is in flight and no step changes page_rank, discovered_sites or
\* link_queue; after a stop on the page limit fewer than _DEL_STOP_AT workers
\* are in flight, and they may still add to the three.
C10_FinalAfterExhaustion ==
    [][/\ (Stopped /\ ~pages_limit_reached) => (working_threads = 0 /\ UNCHANGED stores)
       /\ (Stopped /\ pages_limit_reached) => working_threads < _DEL_STOP_AT]_vars

\* a crawl that built a graph, ran out of URLs and wrote the graph
C10_Witness ==
    /\ main.pc = "closed"
    /\ ~pages_limit_reached
    /\ Keys(page_rank) # {}
    /\ pagerank_csv # {}

\* the worker's downloader returned "" and the worker still runs
Failed(th_no) ==
    /\ th_no <= Len(threads)
    /\ threads[th_no].pc \notin {"download", "done"}
    /\ ~threads[th_no].html

\* C11: a worker whose fetch failed changes neither discovered_sites,
\* link_queue nor page_rank in any of its steps; its timing step appends one
\* sample, and its last step takes one from working_threads and wakes the
\* controller if it waits.
C11_FailedFetchAbsorbed ==
    [][\A th_no \in ThreadNos :
          (Failed(th_no) /\ threads'[th_no] # threads[th_no]) =>
              /\ UNCHANGED stores
              /\ threads[th_no].linked_sites = {}
              /\ IF threads[th_no].pc = "timing"
                 THEN thread_timings' = Append(thread_timings, Sample)
                 ELSE UNCHANGED thread_timings
              /\ IF threads[th_no].pc = "finish"
                 THEN /\ working_threads' = working_threads - 1
                      /\ threads'[th_no].pc = "done"
                      /\ main.pc = "waiting" => main'.pc = "notified"
                 ELSE UNCHANGED working_threads]_vars

\* a failed fetch of a URL with a domain, the stores not empty, the sample
\* appended, and the controller asleep when the worker is about to end
C11_Witness ==
    \E th_no \in ThreadNos :
        /\ Failed(th_no)
        /\ get_domain(threads[th_no].url) # ""
        /\ threads[th_no].pc = "finish"
        /\ discovered_sites # {}
        /\ main.pc = "waiting"

\* C12: when one of the three numbers entered is not an integer > 0, the run
\* is aborted before any crawling: no Crawler is initialised, no worker is
\* started.
C12_InvalidConfigAborts ==
    (main.pc \notin {"input", "sys.exit(1)"}) =>
        max_links > 0 /\ pages_limit > 0 /\ max_threads > 0

\* the ranker named by flag has returned its ranks
Ranked(flag) == main.pc = "print_ranks" /\ main.ranker_flag = flag

\* the corpus of the example: A links to B, B to A and C, C to nothing
ExampleCorpus == [page \in PageNames |->
                     CASE page = "A" -> {"B"}
                       [] page = "B" -> {"A", "C"}
                       [] page = "C" -> {}]

\* C13: counter_ranker gives every domain of the corpus its number of
\* out-links and has the domains of the corpus as its keys; for the corpus
\* A -> B, B -> A, C it gives A = 1, B = 2, C = 0.
C13_CounterIsOutDegree ==
    Ranked("-n") =>
        /\ DOMAIN main.ranks = DOMAIN main.corpus
        /\ \A d \in DOMAIN main.corpus : main.ranks[d] = Cardinality(main.corpus[d])
        /\ main.corpus = ExampleCorpus =>
              main.ranks["A"] = 1 /\ main.ranks["B"] = 2 /\ main.ranks["C"] = 0

C13_Witness == Ranked("-n") /\ main.corpus = ExampleCorpus

\* C14: the ranks iterate_pagerank returns add up to 1, to within one part
\* of Unit per domain, also when domains without out-links lost rank during
\* the iteration; a corpus of one domain without links gives that domain 1.
C14_IterateSumsToOne ==
    Ranked("-ip") =>
        /\ abs(sum(main.ranks, DOMAIN main.ranks) - Unit) <= Cardinality(DOMAIN main.ranks)
        /\ (\E d \in PageNames : main.corpus = [p \in {d} |-> {}]) =>
              \A d \in DOMAIN main.ranks : main.ranks[d] = Unit

\* a corpus with a domain without out-links was ranked, and before the
\* normalization the ranks added up to less than nine tenths
C14_Witness ==
    /\ Ranked("-ip")
    /\ \E d \in DOMAIN main.corpus : main.corpus[d] = {}
    /\ \E d \in DOMAIN main.corpus : main.corpus[d] # {}
    /\ 10 * sum(main.pagerank, DOMAIN main.pagerank) < 9 * Unit

file_edges(file) ==
    UNION {{<<row[1], cell>> : cell \in row[2] \ {""}} : row \in file \ {<<>>}}

\* the edges of a corpus
corpus_edges(corpus) ==
    UNION {{<<page, link>> : link \in corpus[page]} : page \in DOMAIN corpus}

\* the first cells of the rows of a graph file
first_cells(file) == {row[1] : row \in file \ {<<>>}}

\* C19: the corpus read_corpus returns for a graph file is closed (every
\* linked domain is a key), a key without a row of its own has no links, and
\* the edges of the corpus are the edges of the file, no more and no fewer.
C19_ReadCorpusCloses ==
    (main.pc # "read_corpus" /\ pagerank_csv # NoGraphFile) =>
        /\ \A page \in DOMAIN main.corpus : main.corpus[page] \subseteq DOMAIN main.corpus
        /\ \A page \in DOMAIN main.corpus :
              page \notin first_cells(pagerank_csv) => main.corpus[page] = {}
        /\ DOMAIN main.corpus =
              first_cells(pagerank_csv) \cup {edge[2] : edge \in file_edges(pagerank_csv)}
        /\ corpus_edges(main.corpus) = file_edges(pagerank_csv)

\* a file with a blank row was read whose only other row links to a domain
\* without a row
C19_Witness ==
    /\ main.pc = "ranker_flag"
    /\ <<>> \in pagerank_csv
    /\ \E page \in DOMAIN main.corpus : page \notin first_cells(pagerank_csv)

\* C16: a pass of the controller's loop ends in a call of create_thread, in
\* condition.wait() or in the exit from the loop, and every call of
\* create_thread finds a URL on the queue, takes it and starts one worker.
C16_NoBusySpin ==
    [][/\ (main.pc = "decide" /\ main' # main) =>
              main'.pc \in {"create_thread", "waiting", "stopped"}
       /\ (main.pc = "create_thread" /\ main' # main) =>
              /\ link_queue # <<>>
              /\ link_queue' = Tail(link_queue)
              /\ Len(threads') = Len(threads) + 1
              /\ threads'[Len(threads')].url = Head(link_queue)
              /\ working_threads' = working_threads + 1]_vars

\* create_thread is called while an earlier worker still runs and one URL is left
C16_Witness ==
    /\ main.pc = "create_thread"
    /\ working_threads >= 1
    /\ Len(link_queue) = 1

\* C17: with max_threads >= 1, while the controller waits un-notified a worker
\* is in flight, and at least _DEL_STOP_AT of them once the limit is reached;
\* a woken controller takes the lock and reads pages_limit_reached,
\* working_threads and the queue anew before it decides.
C17_NoLostWakeup ==
    /\ []((max_threads >= 1 /\ main.pc = "waiting") =>
             /\ working_threads >= 1
             /\ pages_limit_reached => working_threads >= _DEL_STOP_AT)
    /\ [][/\ (main.pc = "notified" /\ main' # main) => main'.pc = "acquire"
          /\ (main.pc = "acquire" /\ main' # main) => main'.pc = "snapshot"
          /\ (main.pc # "decide" /\ main'.pc = "decide") =>
                /\ main.pc = "snapshot"
                /\ main'.limit_hit = pages_limit_reached
                /\ main'.threads_working = working_threads
                /\ main'.queue_has_links = (link_queue # <<>>)]_vars

\* the controller waits for the workers left after the limit was reached, and
\* one of them is about to notify it
C17_Witness ==
    /\ max_threads >= 1
    /\ main.pc = "waiting"
    /\ pages_limit_reached
    /\ working_threads >= _DEL_STOP_AT
    /\ \E th_no \in ThreadNos : th_no <= Len(threads) /\ threads[th_no].pc = "finish"

\* C18: no step turns pages_limit_reached from true to false, lowers
\* total_visited_pages, takes a URL out of discovered_sites or a domain out of
\* a set of page_rank, or changes or removes a sample of thread_timings.
C18_Monotonic ==
    [][/\ pages_limit_reached => pages_limit_reached'
       /\ total_visited_pages' >= total_visited_pages
       /\ discovered_sites \subseteq discovered_sites'
       /\ \A d \in Domains : page_rank[d] \subseteq page_rank'[d]
       /\ IsPrefix(thread_timings, thread_timings')]_vars

\* a domain has two destinations, the limit is reached, two samples are taken
C18_Witness ==
    /\ \E d \in Domains : Cardinality(page_rank[d]) >= 2
    /\ pages_limit_reached
    /\ total_visited_pages >= 2
    /\ Len(thread_timings) >= 2

\* the URLs put on the queue so far, by initialize and by the workers
enqueued == sum([url \in URLs |-> seed_puts(url) + worker_puts[url]], URLs)

\* C20: when the controller has stopped with pages_limit_reached false, the
\* queue is empty, every seed and every discovered URL was given to a worker
\* that has finished, total_visited_pages is the number of URLs ever put on
\* the queue, and thread_timings holds one sample per visited page.
C20_ExhaustionIsComplete ==
    (Stopped /\ ~pages_limit_reached) =>
        /\ link_queue = <<>>
        /\ working_threads = 0
        /\ \A th_no \in 1..Len(threads) : threads[th_no].pc = "done"
        /\ \A url \in discovered_sites \cup {SeedLines[i] : i \in 1..Len(SeedLines)} :
              \E th_no \in 1..Len(threads) : threads[th_no].url = url
        /\ total_visited_pages = enqueued
        /\ Len(threads) = total_visited_pages
        /\ Len(thread_timings) = total_visited_pages

\* the crawl ran out of URLs after visiting a seed and a discovered URL
C20_Witness ==
    /\ main.pc = "stopped"
    /\ ~pages_limit_reached
    /\ discovered_sites # {}
    /\ total_visited_pages >= 2

====
